---- MODULE Spec2Model ----
(***************************************************************************)
(* Reading list server (src/main.go, lines 1-503): the readings table, the *)
(* HTTP handlers FetchReadings, DeleteReading and AddReading, each served  *)
(* by its own goroutine, and the title generator generateTitleWithLlama3   *)
(* with its endpoint discovery getAvailableURL.                            *)
(*                                                                         *)
(* A handler takes one step per database statement or network call, so    *)
(* the steps of concurrent requests interleave as the statements do.       *)
(* The columns description, type and source are written and read back      *)
(* unchanged and decide nothing; they are left out of the rows.            *)
(***************************************************************************)
EXTENDS Integers, Sequences, FiniteSets, TLC

VARIABLES
    store,      \* the rows of table readings, in rowid order
    nextId,     \* the next AUTOINCREMENT id (sqlite_sequence + 1)
    env,        \* <<LLAMA_API_URL_WINDOWS, LLAMA_API_URL_LINUX>>
    req,        \* per goroutine: the request it serves and where it stands
    log         \* whether the title generator's calls are recorded in req

vars == <<store, nextId, env, req, log>>

----------------------------------------------------------------------------
(* Bounds *)

\* ids handed out by the table stay in 1..MaxId
MaxId == 4

\* goroutines serving requests at the same time
Reqs == {"g1", "g2"}

\* form values of url
Urls == {"", "u"}

\* values the two optional environment variables may hold
EnvWindows == {"", "win"}
EnvLinux == {"", "lin"}

\* non-empty message content a chat response may carry
Contents == {"T"}

----------------------------------------------------------------------------
(* Types and constants of the program *)

NULL == "NULL"

ToBeRead == "to-be-read"
Halfway == "halfway"
Unread == "unread"
Read == "read"

Statuses == {ToBeRead, Halfway, Unread, Read}

\* query values of ?status= other than "all" and ""
StatusParams == Statuses \cup {"bogus"}

maxRetries == 3

StatusOK == 200
StatusBadRequest == 400
StatusInternalServerError == 500

----------------------------------------------------------------------------
(* The store *)

Row(id, url, title, status) ==
    [id |-> id, url |-> url, title |-> title, status |-> status]

\* initDb's INSERT names no status column and the column has no default
SeedStatus == NULL

testData ==
    << [url |-> "https://go.dev/doc", title |-> "Go Documentation"],
       [url |-> "https://github.com/ismi-abbas/reading-list",
        title |-> "Reading List Project"] >>

\* the table after initDb found it empty
SeedRows ==
    [k \in 1..Len(testData) |->
        Row(k, testData[k].url, testData[k].title, SeedStatus)]

\* rows.Scan into Reading.Status (a string kind) fails on a NULL column
ScanFails(row) == row.status = NULL

\* SELECT ... FROM readings
GetReadings(s) ==
    IF \E k \in 1..Len(s) : ScanFails(s[k])
    THEN [err |-> TRUE, rows |-> <<>>]
    ELSE [err |-> FALSE, rows |-> s]

MatchesStatus(row, status) == row.status # NULL /\ row.status = status

\* SELECT ... FROM readings WHERE status = ?
GetReadingsByStatus(s, status) ==
    [err |-> FALSE,
     rows |-> SelectSeq(s, LAMBDA row : MatchesStatus(row, status))]

\* DELETE FROM readings WHERE id = ?
DeleteRows(s, id) == SelectSeq(s, LAMBDA row : row.id # id)

\* INSERT INTO readings (url, title, ..., status) VALUES (?, ?, ..., Unread)
InsertReading(s, id, url, title) == Append(s, Row(id, url, title, Unread))

Ids(s) == {s[k].id : k \in 1..Len(s)}

\* SELECT COUNT(*) FROM readings WHERE status = ?
GetCountByStatus(s, status) ==
    Len(SelectSeq(s, LAMBDA row : MatchesStatus(row, status)))

----------------------------------------------------------------------------
(* The title generator *)

\* the candidate base URLs, in probing order
Candidates(e) == <<"http://localhost:11434", e[1], e[2]>>

\* ProbeStep falling back on the first candidate when the last probe fails
ProbeStepFallback(urls, i, ok) ==
    IF urls[i] = ""
    THEN [probed |-> FALSE, found |-> FALSE, base |-> "", i |-> i + 1]
    ELSE IF ok \/ i = Len(urls)
         THEN [probed |-> TRUE, found |-> TRUE,
               base |-> IF ok THEN urls[i] ELSE urls[1], i |-> i]
         ELSE [probed |-> TRUE, found |-> FALSE, base |-> "", i |-> i + 1]

\* one iteration of getAvailableURL's loop at position i; ok is checkURL's
\* answer when the candidate is probed
ProbeStep(urls, i, ok) ==
    IF urls[i] = ""
    THEN [probed |-> FALSE, found |-> FALSE, base |-> "", i |-> i + 1]
    ELSE IF ok
         THEN [probed |-> TRUE, found |-> TRUE, base |-> urls[i], i |-> i]
         ELSE [probed |-> TRUE, found |-> FALSE, base |-> "", i |-> i + 1]

\* what client.Do and the decoding of its response
\* may give: an error of client.Do, a body that cannot be read or parsed, a
\* message with empty content, a message with content
ChatOutcomes == {"neterr", "malformed", "empty", "content"}

\* ChatStep giving up one attempt early
ChatStepTwoAttempts(i, o, c) ==
    CASE o = "malformed" -> [ret |-> TRUE, title |-> "", i |-> i]
      [] o = "content" -> [ret |-> TRUE, title |-> c, i |-> i]
      [] OTHER ->
            IF i < maxRetries - 2
            THEN [ret |-> FALSE, title |-> "", i |-> i + 1]
            ELSE [ret |-> TRUE, title |-> "", i |-> i]

\* ChatStep trying again after a response it could not read or parse
ChatStepRetryMalformed(i, o, c) ==
    CASE o = "content" -> [ret |-> TRUE, title |-> c, i |-> i]
      [] OTHER ->
            IF i < maxRetries - 1
            THEN [ret |-> FALSE, title |-> "", i |-> i + 1]
            ELSE [ret |-> TRUE, title |-> "", i |-> i]

\* one iteration of the retry loop, attempt index i (from 0), outcome o,
\* content c when o = "content"
ChatStep(i, o, c) ==
    CASE o = "neterr" ->
            IF i < maxRetries - 1
            THEN [ret |-> FALSE, title |-> "", i |-> i + 1]
            ELSE [ret |-> TRUE, title |-> "", i |-> i]
      [] o = "malformed" ->
            [ret |-> TRUE, title |-> "", i |-> i]
      [] o = "content" ->
            [ret |-> TRUE, title |-> c, i |-> i]
      [] OTHER ->
            IF i < maxRetries - 1
            THEN [ret |-> FALSE, title |-> "", i |-> i + 1]
            ELSE [ret |-> TRUE, title |-> "", i |-> i + 1]

----------------------------------------------------------------------------
(* Requests *)

Idle ==
    [kind |-> "none", pc |-> "idle", url |-> "", id |-> 0,
     i |-> 0, base |-> "", title |-> "", stmt |-> FALSE,
     probes |-> <<>>, chats |-> <<>>,
     ins |-> 0, affected |-> 0, dbErr |-> FALSE,
     code |-> 0, body |-> <<>>, counts |-> <<>>]

\* http.Error: the response and the handler's return (defer stmt.Close())
Fail(q, code, db) ==
    [q EXCEPT !.pc = "done", !.code = code, !.stmt = FALSE,
              !.dbErr = q.dbErr \/ db]

\* tmpl.ExecuteTemplate(w, "readingList", readings) and the return
Render(q, rows) ==
    [q EXCEPT !.pc = "done", !.code = StatusOK, !.body = rows,
              !.stmt = FALSE]

\* the result of a list query, rendered or answered with a 500
Answer(q, res, ok) ==
    IF ~ok THEN Fail(q, StatusInternalServerError, TRUE)
    ELSE IF res.err THEN Fail(q, StatusInternalServerError, FALSE)
    ELSE Render(q, res.rows)

\* AddReading requests that may still insert; AddReadingStart admits a
\* request only while MaxId leaves an id for each of them
PendingAdds ==
    Cardinality({r \in Reqs : req[r].kind = "add" /\
                              req[r].pc \in {"probe", "chat", "validate", "exec"}})

\* the state after initDb ran on an empty table
Boot ==
    /\ store = SeedRows
    /\ nextId = Len(SeedRows) + 1
    /\ env \in EnvWindows \X EnvLinux
    /\ req = [r \in Reqs |-> Idle]

Init == Boot /\ log = FALSE

\* the same, with the title generator's calls recorded
InitGen == Boot /\ log = TRUE

\* GET /getReadingList?status=
FetchReadings(r) ==
    /\ req[r].pc = "idle"
    /\ \E status \in StatusParams \cup {"all", ""}, ok \in BOOLEAN :
         LET res == IF status = "all" \/ status = ""
                    THEN GetReadings(store)
                    ELSE GetReadingsByStatus(store, status)
         IN req' = [req EXCEPT ![r] =
                        Answer([Idle EXCEPT !.kind = "fetch"], res, ok)]
    /\ UNCHANGED <<store, nextId, env, log>>

\* DELETE /readings/{id}/delete: db.Prepare
DeletePrepare(r) ==
    /\ req[r].pc = "idle"
    /\ \E id \in 1..MaxId, ok \in BOOLEAN :
         LET q == [Idle EXCEPT !.kind = "delete", !.id = id]
         IN req' = [req EXCEPT ![r] =
                IF ok THEN [q EXCEPT !.pc = "dexec", !.stmt = TRUE]
                ELSE Fail(q, StatusInternalServerError, TRUE)]
    /\ UNCHANGED <<store, nextId, env, log>>

\* DeleteReading: stmt.Exec(id)
DeleteExec(r) ==
    /\ req[r].pc = "dexec"
    /\ \E ok \in BOOLEAN :
         LET q == req[r]
             after == DeleteRows(store, q.id)
         IN IF ok
            THEN /\ store' = after
                 /\ req' = [req EXCEPT ![r] =
                        [q EXCEPT !.pc = "dlist",
                                  !.affected = Len(store) - Len(after)]]
            ELSE /\ store' = store
                 /\ req' = [req EXCEPT ![r] =
                        Fail(q, StatusInternalServerError, TRUE)]
    /\ UNCHANGED <<nextId, env, log>>

\* DeleteReading: GetReadings(db) and the rendering of the list
DeleteList(r) ==
    /\ req[r].pc = "dlist"
    /\ \E ok \in BOOLEAN :
         req' = [req EXCEPT ![r] = Answer(req[r], GetReadings(store), ok)]
    /\ UNCHANGED <<store, nextId, env, log>>

\* AddReadingStart with db.Prepare moved above the title generator's call
AddReadingStartPrepared(r) ==
    /\ req[r].pc = "idle"
    /\ nextId + PendingAdds <= MaxId
    /\ \E url \in Urls :
         req' = [req EXCEPT ![r] =
                    [Idle EXCEPT !.kind = "add", !.url = url,
                                 !.pc = "probe", !.i = 1, !.stmt = TRUE]]
    /\ UNCHANGED <<store, nextId, env, log>>

\* POST /addReading: the form is read and generateTitleWithLlama3 is called
AddReadingStart(r) ==
    /\ req[r].pc = "idle"
    /\ nextId + PendingAdds <= MaxId
    /\ \E url \in Urls :
         req' = [req EXCEPT ![r] =
                    [Idle EXCEPT !.kind = "add", !.url = url,
                                 !.pc = "probe", !.i = 1]]
    /\ UNCHANGED <<store, nextId, env, log>>

\* generateTitleWithLlama3 returns title to AddReading
GenReturn(q, title) ==
    [q EXCEPT !.pc = "validate", !.title = title, !.i = 0, !.base = ""]

\* getAvailableURL: one candidate of the list
GetAvailableURL(r) ==
    /\ req[r].pc = "probe"
    /\ \E ok \in BOOLEAN :
         LET q == req[r]
             urls == Candidates(env)
             p == ProbeStep(urls, q.i, ok)
             q1 == IF p.probed /\ log
                   THEN [q EXCEPT !.probes =
                                Append(@, [at |-> q.i, ok |-> ok])]
                   ELSE q
         IN req' = [req EXCEPT ![r] =
                IF p.found
                THEN [q1 EXCEPT !.pc = "chat", !.base = p.base, !.i = 0]
                ELSE IF p.i > Len(urls)
                     THEN GenReturn(q1, "")
                     ELSE [q1 EXCEPT !.i = p.i]]
    /\ UNCHANGED <<store, nextId, env, log>>

\* generateTitleWithLlama3: one attempt of the retry loop
ChatAttempt(r) ==
    /\ req[r].pc = "chat"
    /\ \E o \in ChatOutcomes, c \in Contents :
         LET q == req[r]
             a == ChatStep(q.i, o, c)
             got == [out |-> o,
                     content |-> IF o = "content" THEN c ELSE ""]
             q1 == [q EXCEPT !.chats = IF log THEN Append(@, got) ELSE @,
                             !.i = a.i]
         IN req' = [req EXCEPT ![r] =
                IF a.ret THEN GenReturn(q1, a.title) ELSE q1]
    /\ UNCHANGED <<store, nextId, env, log>>

\* Rejects asking for a title too, as the error message says
RejectsMissingTitle(url, title) == url = "" \/ title = ""

\* Rejects looking at the title in place of the url
RejectsTitleOnly(url, title) == title = ""

\* AddReading's required-field check
Rejects(url, title) == url = ""

\* AddReading: the check of the form and db.Prepare
AddPrepare(r) ==
    /\ req[r].pc = "validate"
    /\ \E ok \in BOOLEAN :
         LET q == req[r]
         IN req' = [req EXCEPT ![r] =
                IF Rejects(q.url, q.title)
                THEN Fail(q, StatusBadRequest, FALSE)
                ELSE IF ok
                     THEN [q EXCEPT !.pc = "exec", !.stmt = TRUE]
                     ELSE Fail(q, StatusInternalServerError, TRUE)]
    /\ UNCHANGED <<store, nextId, env, log>>

\* AddExec whose failed Exec has written its row all the same
AddExecWritesOnError(r) ==
    /\ req[r].pc = "exec"
    /\ \E ok \in BOOLEAN :
         LET q == req[r]
         IN /\ store' = InsertReading(store, nextId, q.url, q.title)
            /\ nextId' = nextId + 1
            /\ req' = [req EXCEPT ![r] =
                   IF ok THEN [q EXCEPT !.pc = "list", !.ins = nextId]
                   ELSE Fail(q, StatusInternalServerError, TRUE)]
    /\ UNCHANGED <<env, log>>

\* AddReading: stmt.Exec(url, generatedTitle, ..., Unread)
AddExec(r) ==
    /\ req[r].pc = "exec"
    /\ \E ok \in BOOLEAN :
         LET q == req[r]
         IN IF ok
            THEN /\ store' = InsertReading(store, nextId, q.url, q.title)
                 /\ nextId' = nextId + 1
                 /\ req' = [req EXCEPT ![r] =
                        [q EXCEPT !.pc = "list", !.ins = nextId]]
            ELSE /\ UNCHANGED <<store, nextId>>
                 /\ req' = [req EXCEPT ![r] =
                        Fail(q, StatusInternalServerError, TRUE)]
    /\ UNCHANGED <<env, log>>

\* AddReading: GetReadings(db) and the rendering of the list
AddList(r) ==
    /\ req[r].pc = "list"
    /\ \E ok \in BOOLEAN :
         req' = [req EXCEPT ![r] = Answer(req[r], GetReadings(store), ok)]
    /\ UNCHANGED <<store, nextId, env, log>>

\* the handler returned and its response was sent
Finish(r) ==
    /\ req[r].pc = "done"
    /\ req' = [req EXCEPT ![r] = Idle]
    /\ UNCHANGED <<store, nextId, env, log>>

\* the statuses Homepage counts, in the order of its queries
CountOrder == <<Unread, Read, ToBeRead, Halfway>>

\* unreadCount + readCount + toBeReadCount + halfwayCount
AllCount(counts) == counts[1] + counts[2] + counts[3] + counts[4]

\* GET /: the next of Homepage's four GetCountByStatus calls, whose error
\* is dropped and leaves the count 0; index.html is rendered after the last
Homepage(r) ==
    /\ req[r].pc \in {"idle", "home"}
    /\ \E ok \in BOOLEAN :
         LET q == IF req[r].pc = "idle"
                  THEN [Idle EXCEPT !.kind = "home", !.pc = "home"]
                  ELSE req[r]
             status == CountOrder[Len(q.counts) + 1]
             count == IF ok THEN GetCountByStatus(store, status) ELSE 0
             q1 == [q EXCEPT !.counts = Append(@, count),
                             !.dbErr = @ \/ ~ok]
         IN req' = [req EXCEPT ![r] =
                IF Len(q1.counts) = Len(CountOrder)
                THEN [q1 EXCEPT !.pc = "done", !.code = StatusOK]
                ELSE q1]
    /\ UNCHANGED <<store, nextId, env, log>>

Step(r) ==
        \/ FetchReadings(r)
        \/ DeletePrepare(r)
        \/ DeleteExec(r)
        \/ DeleteList(r)
        \/ AddReadingStart(r)
        \/ GetAvailableURL(r)
        \/ ChatAttempt(r)
        \/ AddPrepare(r)
        \/ AddExec(r)
        \/ AddList(r)
        \/ Finish(r)

\* net/http serves every request in a goroutine of its own
Next == \E r \in Reqs : Step(r)

Spec == Init /\ [][Next]_vars

\* one request at a time, each call of the title generator recorded; the
\* home page, which only reads, is served here
NextGen == Step("g1") \/ Homepage("g1")

GenSpec == InitGen /\ [][NextGen]_vars

----------------------------------------------------------------------------
(* Properties *)

Range(f) == {f[k] : k \in DOMAIN f}

\* the generator of q's request has returned to AddReading
Returned(q) == q.kind = "add" /\ q.pc \notin {"probe", "chat"}

\* a request of q's is blocked in the title generator
InGenerator(q) == q.kind = "add" /\ q.pc \in {"probe", "chat"}

\* C1: right after AddReading's insert for a non-empty url, GetReadings
\* succeeds and lists an entry with that url, status unread and an id no
\* other entry has.
C1_CreateThenListAll ==
    [][\A r \in Reqs :
        (req[r].pc = "exec" /\ req'[r].pc = "list") =>
            LET res == GetReadings(store')
            IN /\ ~res.err
               /\ \E k \in 1..Len(res.rows) :
                    /\ res.rows[k].url = req[r].url
                    /\ res.rows[k].status = Unread
                    /\ \A j \in 1..Len(res.rows) :
                         j # k => res.rows[j].id # res.rows[k].id]_vars

\* C2: once DeleteReading(id) has run on a working store, no entry has that
\* id, and when it matched no entry the request is answered with a success.
C2_DeleteThenListAll ==
    \A r \in Reqs :
        LET q == req[r]
        IN (q.kind = "delete" /\ q.pc = "done" /\ ~q.dbErr) =>
              /\ q.id \notin Ids(store)
              /\ q.affected = 0 => q.code = StatusOK

\* C3: GetReadingsByStatus(s) gives exactly the entries of GetReadings with
\* status s, without error, and the results for the four statuses together
\* are the entries of GetReadings.
C3_ListByStatusPartition ==
    LET all == GetReadings(store)
        by(s) == GetReadingsByStatus(store, s)
    IN /\ ~all.err
       /\ \A s \in StatusParams :
            /\ ~by(s).err
            /\ by(s).rows = SelectSeq(all.rows, LAMBDA row : row.status = s)
       /\ UNION {Range(by(s).rows) : s \in Statuses} = Range(store)

\* C4: every step of an AddReading request with an empty url leaves the
\* store as it was, and the request ends with status 400.
C4_EmptyUrlRejected ==
    [][\A r \in Reqs :
        (req'[r] # req[r] /\ req'[r].kind = "add" /\ req'[r].url = "") =>
            /\ store' = store
            /\ req'[r].pc = "done" => req'[r].code = StatusBadRequest]_vars

C4_Witness ==
    \E r \in Reqs :
        /\ req[r].kind = "add" /\ req[r].url = "" /\ req[r].pc = "done"
        /\ req[r].code = StatusBadRequest

\* C5: an AddReading request with a non-empty url on a working store always
\* has a next step until it is answered, and once answered it has inserted
\* its entry, with the generated title, which is empty when no attempt gave
\* content.
C5_TitleNeverBlocksCreate ==
    \A r \in Reqs :
        LET q == req[r]
        IN (q.kind = "add" /\ q.url # "" /\ ~q.dbErr) =>
              /\ q.pc # "done" => ENABLED Step(r)
              /\ q.pc = "done" =>
                    /\ q.ins # 0
                    /\ \E k \in 1..Len(store) :
                         /\ store[k].id = q.ins
                         /\ store[k].url = q.url
                         /\ store[k].title = q.title
                         /\ (\A a \in Range(q.chats) : a.out # "content")
                                => store[k].title = ""

C5_Witness ==
    \E r \in Reqs :
        /\ req[r].kind = "add" /\ req[r].url # "" /\ req[r].pc = "done"
        /\ ~req[r].dbErr
        /\ Len(req[r].chats) = 3
        /\ \A a \in Range(req[r].chats) : a.out = "neterr"
        /\ \E k \in 1..Len(store) :
             store[k].id = req[r].ins /\ store[k].title = ""

\* C6: every entry's status is one of unread, to-be-read, halfway, read.
C6_StatusInEnum ==
    \A k \in 1..Len(store) : store[k].status \in Statuses

FailedAttempt(a) == a.out \in {"neterr", "empty"}

\* C7: after two failed chat attempts a third is made, and when it gives
\* non-empty content the generator returns that content.
C7_ThirdAttemptReturned ==
    \A r \in Reqs :
        LET q == req[r]
        IN (Len(q.chats) >= 2 /\ FailedAttempt(q.chats[1])
                /\ FailedAttempt(q.chats[2])) =>
              /\ Len(q.chats) = 2 => q.pc = "chat"
              /\ (Len(q.chats) = 3 /\ q.chats[3].out = "content") =>
                    /\ Returned(q)
                    /\ q.title = q.chats[3].content
                    /\ q.title # ""

C7_Witness ==
    \E r \in Reqs :
        /\ Len(req[r].chats) = 3
        /\ req[r].chats[1].out = "neterr" /\ req[r].chats[2].out = "neterr"
        /\ req[r].chats[3].out = "content"
        /\ req[r].pc = "validate" /\ req[r].title = req[r].chats[3].content

ProbesAt(q, k) == {j \in 1..Len(q.probes) : q.probes[j].at = k}

\* C8: no candidate is probed twice and no empty one at all; discovery never
\* looks past the last candidate, and once it ended with every probe failed
\* the generator has returned the empty string without a chat request.
C8_NoEndpointNoChat ==
    \A r \in Reqs :
        LET q == req[r]
            urls == Candidates(env)
        IN /\ \A k \in 1..Len(urls) :
                Cardinality(ProbesAt(q, k)) <= (IF urls[k] = "" THEN 0 ELSE 1)
           /\ q.pc = "probe" => q.i \in 1..Len(urls)
           /\ (q.kind = "add" /\ q.pc # "probe"
                    /\ \A p \in Range(q.probes) : ~p.ok) =>
                 /\ Returned(q)
                 /\ q.title = ""
                 /\ q.chats = <<>>

C8_Witness ==
    \E r \in Reqs :
        /\ req[r].kind = "add" /\ req[r].pc = "validate"
        /\ Len(req[r].probes) = 3
        /\ \A p \in Range(req[r].probes) : ~p.ok
        /\ req[r].title = "" /\ req[r].chats = <<>>

\* C9: while a request is blocked in the title generator it holds no
\* prepared statement, every other request under way has a next step, and
\* an idle goroutine can take up a list or a delete request.
C9_GeneratorBlocksNoOne ==
    \A r \in Reqs :
        InGenerator(req[r]) =>
            /\ ~req[r].stmt
            /\ \A g \in Reqs \ {r} :
                 IF req[g].pc = "idle"
                 THEN ENABLED FetchReadings(g) /\ ENABLED DeletePrepare(g)
                 ELSE ENABLED Step(g)

C9_Witness ==
    \E r, g \in Reqs :
        /\ r # g
        /\ req[r].kind = "add" /\ req[r].pc = "chat"
        /\ req[g].kind = "add" /\ req[g].pc = "list" /\ req[g].stmt

\* C10: at most 3 chat attempts are made; every attempt that is followed
\* by another one ended in a network failure or an empty content; and when
\* the generator returns after an attempt that failed or was empty, it
\* returns the empty string.
C10_BoundedRetries ==
    \A r \in Reqs :
        LET q == req[r]
            n == Len(q.chats)
        IN /\ n <= 3
           /\ \A j \in 1..n : j < n => FailedAttempt(q.chats[j])
           /\ (Returned(q) /\ n > 0 /\ FailedAttempt(q.chats[n])) =>
                 q.title = ""

C10_Witness ==
    \E r \in Reqs :
        /\ req[r].pc = "validate"
        /\ Len(req[r].chats) = 3
        /\ req[r].chats[1].out = "empty" /\ req[r].chats[2].out = "neterr"
        /\ req[r].chats[3].out = "empty"
        /\ req[r].title = ""

Writes(q) == q.kind \in {"add", "delete"}

FailureCodes == {StatusBadRequest, StatusInternalServerError}

\* C11 as stated: an AddReading or DeleteReading request answered with a
\* 400 or a 500 has inserted no row and removed none.
C11_FailureMeansNoWrite ==
    \A r \in Reqs :
        LET q == req[r]
        IN (Writes(q) /\ q.pc = "done" /\ q.code \in FailureCodes) =>
              q.ins = 0 /\ q.affected = 0

\* C11 amended: a request changes the store only in the step of its
\* stmt.Exec that succeeds; a 400, or a 500 given because db.Prepare or
\* stmt.Exec failed, comes from a request that changed nothing, while the
\* 500 AddReading gives because the GetReadings that follows failed comes
\* after its row was inserted.
C11_FailureBeforeWrite ==
    [][\A r \in Reqs :
        (req'[r] # req[r] /\ Writes(req'[r])) =>
            /\ store' # store =>
                  /\ req[r].pc \in {"exec", "dexec"}
                  /\ req'[r].pc \in {"list", "dlist"}
            /\ (req'[r].pc = "done" /\ req'[r].code \in FailureCodes) =>
                  /\ store' = store
                  /\ req[r].pc \notin {"list", "dlist"} =>
                        req'[r].ins = 0 /\ req'[r].affected = 0
                  /\ req[r].pc = "list" => req'[r].ins # 0]_vars

C11_Witness ==
    \E r \in Reqs :
        /\ req[r].kind = "delete" /\ req[r].pc = "done"
        /\ req[r].code = StatusInternalServerError
        /\ req[r].affected = 0 /\ req[r].id \in Ids(store)

\* C12: the allCount Homepage shows, the sum of its four counts taken on a
\* working store, is the number of entries in the store.
C12_AllCountIsTotal ==
    \A r \in Reqs :
        LET q == req[r]
        IN (q.kind = "home" /\ q.pc = "done" /\ ~q.dbErr) =>
              AllCount(q.counts) = Len(store)

\* C13: an AddReading request answered with the 400 of the url check has
\* made no probe of an endpoint and no chat request.
C13_RejectedBeforeGenerator ==
    \A r \in Reqs :
        LET q == req[r]
        IN (q.kind = "add" /\ q.pc = "done" /\ q.code = StatusBadRequest) =>
              q.probes = <<>> /\ q.chats = <<>>

====
